---- MODULE Spec2Model ----
(***************************************************************************)
(* Model of the tip calculator in src/app.py: the calculate handler and    *)
(* its arithmetic on Python floats (IEEE-754 binary64, round to nearest,   *)
(* ties to even), the history file kept by load_history / save_history,    *)
(* and the handlers of the form (presets, slider, clear, copy, load        *)
(* selected history).                                                      *)
(*                                                                         *)
(* A float is [neg, m, e]: the value (-1)^neg * m * 2^e, where m is zero   *)
(* or has exactly 53 bits. TLC's integers are 32 bits wide, so a mantissa  *)
(* is a natural number held as a sequence of 15-bit limbs, least           *)
(* significant first. Texts (entry contents, formatted numbers) are        *)
(* sequences of one-character strings.                                     *)
(***************************************************************************)
EXTENDS Integers, Sequences, FiniteSets, TLC

Min(a, b) == IF a < b THEN a ELSE b
Max(a, b) == IF a > b THEN a ELSE b

(***************************************************************************)
(* Natural numbers of any size.                                            *)
(***************************************************************************)
Base == 2^15

Zeros(k) == [i \in 1..k |-> 0]

RECURSIVE BNorm(_)
BNorm(a) ==
  IF a = <<>> THEN a
  ELSE IF a[Len(a)] = 0 THEN BNorm(SubSeq(a, 1, Len(a) - 1)) ELSE a

RECURSIVE BFromInt(_)
BFromInt(n) == IF n = 0 THEN <<>> ELSE <<n % Base>> \o BFromInt(n \div Base)

Limb(a, i) == IF i <= Len(a) THEN a[i] ELSE 0

RECURSIVE BAddFrom(_, _, _, _)
BAddFrom(a, b, i, c) ==
  IF i > Len(a) /\ i > Len(b) THEN (IF c = 0 THEN <<>> ELSE <<c>>)
  ELSE LET s == Limb(a, i) + Limb(b, i) + c
       IN  <<s % Base>> \o BAddFrom(a, b, i + 1, s \div Base)

BAdd(a, b) == BNorm(BAddFrom(a, b, 1, 0))

RECURSIVE BMulSmallFrom(_, _, _, _)
BMulSmallFrom(a, s, i, c) ==
  IF i > Len(a) THEN BFromInt(c)
  ELSE LET p == a[i] * s + c
       IN  <<p % Base>> \o BMulSmallFrom(a, s, i + 1, p \div Base)

\* a * s for 0 <= s < Base
BMulSmall(a, s) == IF s = 0 THEN <<>> ELSE BMulSmallFrom(a, s, 1, 0)

RECURSIVE BMulFrom(_, _, _)
BMulFrom(a, b, j) ==
  IF j > Len(b) THEN <<>>
  ELSE BAdd(Zeros(j - 1) \o BMulSmall(a, b[j]), BMulFrom(a, b, j + 1))

BMul(a, b) == BNorm(BMulFrom(a, b, 1))

RECURSIVE BDivSmallFrom(_, _, _, _)
BDivSmallFrom(a, d, i, r) ==
  IF i = 0 THEN [q |-> <<>>, r |-> r]
  ELSE LET cur  == r * Base + a[i]
           rest == BDivSmallFrom(a, d, i - 1, cur % d)
       IN  [q |-> rest.q \o <<cur \div d>>, r |-> rest.r]

NormQ(x) == [q |-> BNorm(x.q), r |-> x.r]

\* quotient and remainder of a by d, for 1 <= d <= Base
BDivSmall(a, d) == NormQ(BDivSmallFrom(a, d, Len(a), 0))

RECURSIVE BitLenSmall(_)
BitLenSmall(n) == IF n = 0 THEN 0 ELSE 1 + BitLenSmall(n \div 2)

BBitLen(a) ==
  IF a = <<>> THEN 0 ELSE (Len(a) - 1) * 15 + BitLenSmall(a[Len(a)])

\* a * 2^k
BShl(a, k) ==
  IF a = <<>> THEN a ELSE Zeros(k \div 15) \o BMulSmall(a, 2^(k % 15))

ShrResult(d, sticky) == [q |-> d.q, sticky |-> d.r # 0 \/ sticky]

\* BShr with the j low limbs dropped whole
BShrAt(a, k, j) ==
  ShrResult(BDivSmall(SubSeq(a, j + 1, Len(a)), 2^(k % 15)),
            \E i \in 1..j : a[i] # 0)

\* a \div 2^k, and whether a bit that was shifted out was set
BShr(a, k) == BShrAt(a, k, Min(k \div 15, Len(a)))

BOdd(a) == a # <<>> /\ a[1] % 2 = 1

BInc(a) == BAdd(a, <<1>>)

\* the value of a, for a below 2^31
RECURSIVE BToInt(_)
BToInt(a) == IF a = <<>> THEN 0 ELSE a[1] + Base * BToInt(Tail(a))

\* q, or q + 1 when the guard bit is set and the rest is above a half or q is odd
RoundUpIf(q, guard, sticky) ==
  IF guard /\ (sticky \/ BOdd(q)) THEN BInc(q) ELSE q

\* s: the number shifted right but for its guard bit
NearestEven(s) == RoundUpIf(BShr(s.q, 1).q, BOdd(s.q), s.sticky)

\* N / 2^k rounded to the nearest integer, ties to the even one
BShrNearestEven(N, k) == IF k = 0 THEN N ELSE NearestEven(BShr(N, k - 1))

(***************************************************************************)
(* Python floats.                                                          *)
(***************************************************************************)
FZero(neg) == [neg |-> neg, m |-> <<>>, e |-> 0]

IsZero(x) == x.m = <<>>

\* a rounded mantissa that carried into a 54th bit is halved
Renorm(neg, m1, e) ==
  IF BBitLen(m1) > 53
    THEN [neg |-> neg, m |-> BShr(m1, 1).q, e |-> e + 1]
    ELSE [neg |-> neg, m |-> m1, e |-> e]

\* FRound for N of bl bits
FRoundBits(neg, N, e, bl) ==
  IF bl = 0 THEN FZero(neg)
  ELSE IF bl <= 53
    THEN [neg |-> neg, m |-> BShl(N, 53 - bl), e |-> e - (53 - bl)]
    ELSE Renorm(neg, BShrNearestEven(N, bl - 53), e + (bl - 53))

\* the float nearest to (-1)^neg * N * 2^e
FRound(neg, N, e) == FRoundBits(neg, N, e, BBitLen(N))

\* x: quotient and remainder of N * 2^k; the remainder is kept as one more low bit
WithSticky(neg, x, k) ==
  FRound(neg, BAdd(BShl(x.q, 1), IF x.r # 0 THEN <<1>> ELSE <<>>), 0 - (k + 1))

FRatioShifted(neg, N, d, k) == WithSticky(neg, BDivSmall(BShl(N, k), d), k)

\* the float nearest to (-1)^neg * N / d, for 1 <= d <= Base: the quotient is
\* taken to at least 56 bits
FRatio(neg, N, d) ==
  IF N = <<>> THEN FZero(neg)
  ELSE FRatioShifted(neg, N, d, Max(0, 72 - BBitLen(N)))

FFromInt(n) == FRound(n < 0, BFromInt(IF n < 0 THEN 0 - n ELSE n), 0)

\* a * b
FMul(a, b) == FRound(a.neg # b.neg, BMul(a.m, b.m), a.e + b.e)

\* a + b for a and b of the same sign (the only sums calculate forms)
FAdd(a, b) ==
  IF IsZero(a) /\ IsZero(b) THEN FZero(a.neg /\ b.neg)
  ELSE IF IsZero(a) THEN b
  ELSE IF IsZero(b) THEN a
  ELSE IF a.e >= b.e
    THEN FRound(a.neg, BAdd(BShl(a.m, a.e - b.e), b.m), b.e)
    ELSE FRound(a.neg, BAdd(BShl(b.m, b.e - a.e), a.m), a.e)

Scaled(r, e) == IF IsZero(r) THEN r ELSE [r EXCEPT !.e = @ + e]

\* a / n for an integer 1 <= n <= Base
FDivInt(a, n) == Scaled(FRatio(a.neg, a.m, n), a.e)

\* a * n for an integer 0 <= n < Base
FMulInt(a, n) == FRound(a.neg, BMulSmall(a.m, n), a.e)

\* a < 0
FNegative(a) == a.neg /\ ~IsZero(a)

\* a Python int: [neg, mag], the integer (-1)^neg * mag
IntOf(neg, mag) == [neg |-> neg /\ mag # <<>>, mag |-> mag]

CeilFrom(neg, s) == IntOf(neg, IF neg \/ ~s.sticky THEN s.q ELSE BInc(s.q))

\* math.ceil(a)
Ceil(a) ==
  IF IsZero(a) THEN IntOf(FALSE, <<>>)
  ELSE IF a.e >= 0 THEN IntOf(a.neg, BShl(a.m, a.e))
  ELSE CeilFrom(a.neg, BShr(a.m, 0 - a.e))

\* int(a): truncation toward zero
Trunc(a) ==
  IF IsZero(a) THEN IntOf(FALSE, <<>>)
  ELSE IF a.e >= 0 THEN IntOf(a.neg, BShl(a.m, a.e))
  ELSE IntOf(a.neg, BShr(a.m, 0 - a.e).q)

ShiftNearest(N, e) == IF e >= 0 THEN BShl(N, e) ELSE BShrNearestEven(N, 0 - e)

\* |a| * 10^d rounded to the nearest integer, ties to even, for d in 0..4
ScaledNearest(a, d) == ShiftNearest(BMulSmall(a.m, 10^d), a.e)

\* round(a, d)
Round(a, d) == FRatio(a.neg, ScaledNearest(a, d), 10^d)

(***************************************************************************)
(* Texts: what float(), IntVar.get(), str() and the format specs do.       *)
(* The characters of a text are digits, ".", "-" and the letter "z".       *)
(***************************************************************************)
DigitChars == <<"0", "1", "2", "3", "4", "5", "6", "7", "8", "9">>

IsDigit(c) == \E d \in 1..10 : DigitChars[d] = c

DigitVal(c) == (CHOOSE d \in 1..10 : DigitChars[d] = c) - 1

RECURSIVE Str(_)
Str(cs) == IF cs = <<>> THEN "" ELSE cs[1] \o Str(Tail(cs))

\* the decimal digits of N, most significant first; none for zero
RECURSIVE DecDigits(_)
RECURSIVE DecStep(_)
DecStep(x) == DecDigits(x.q) \o <<DigitChars[x.r + 1]>>

DecDigits(N) == IF N = <<>> THEN <<>> ELSE DecStep(BDivSmall(N, 10))

\* str(n) for an integer n
IntToChars(n) ==
  IF n = 0 THEN <<"0">>
  ELSE IF n < 0 THEN <<"-">> \o DecDigits(BFromInt(0 - n))
  ELSE DecDigits(BFromInt(n))

\* the digits ds with a point before the last d, after the sign
Pointed(neg, ds, d) ==
  (IF neg THEN <<"-">> ELSE <<>>)
    \o SubSeq(ds, 1, Len(ds) - d) \o <<".">> \o SubSeq(ds, Len(ds) - d + 1, Len(ds))

\* at least one digit before the point
Padded(neg, ds, d) == Pointed(neg, [i \in 1..Max(0, d + 1 - Len(ds)) |-> "0"] \o ds, d)

\* f"{a:.{d}f}" for d in 1..4
Format(a, d) == Padded(a.neg, DecDigits(ScaledNearest(a, d)), d)

\* the number a run of digits writes in base b
RECURSIVE DigitsValue(_, _, _)
DigitsValue(cs, b, acc) ==
  IF cs = <<>> THEN acc
  ELSE DigitsValue(Tail(cs), b, BAdd(BMulSmall(acc, b), BFromInt(DigitVal(cs[1]))))

Unsigned(cs) == IF cs # <<>> /\ cs[1] = "-" THEN Tail(cs) ELSE cs

HasSign(cs) == cs # <<>> /\ cs[1] = "-"

DotsOf(cs) == {i \in 1..Len(cs) : cs[i] = "."}

\* digits [. digits] with at least one digit
IsDecimalBody(body) ==
  /\ Cardinality(DotsOf(body)) <= 1
  /\ \A i \in 1..Len(body) : body[i] = "." \/ IsDigit(body[i])
  /\ Len(body) > Cardinality(DotsOf(body))

IsDecimal(cs) == IsDecimalBody(Unsigned(cs))

FracLen(body) ==
  IF DotsOf(body) = {} THEN 0 ELSE Len(body) - (CHOOSE i \in DotsOf(body) : TRUE)

ParseBody(neg, body) ==
  [ok  |-> TRUE,
   val |-> FRatio(neg, DigitsValue(SelectSeq(body, IsDigit), 10, <<>>), 10^FracLen(body))]

\* float(cs): [ok, val]; at most 4 digits after the point
ParseFloat(cs) ==
  IF ~IsDecimal(cs) THEN [ok |-> FALSE] ELSE ParseBody(HasSign(cs), Unsigned(cs))

Signed(neg, mag) == IF neg THEN 0 - BToInt(mag) ELSE BToInt(mag)

ToInt(t) == Signed(t.neg, t.mag)

AllDigits(body) == body # <<>> /\ \A i \in 1..Len(body) : IsDigit(body[i])

GetIntBody(cs, body) ==
  IF AllDigits(body) /\ ~(Len(body) > 1 /\ body[1] = "0")
    THEN [ok |-> TRUE, val |-> Signed(HasSign(cs), DigitsValue(body, 10, <<>>))]
  ELSE IF AllDigits(body) /\ \A i \in 1..Len(body) : DigitVal(body[i]) < 8
    THEN [ok |-> TRUE, val |-> Signed(HasSign(cs), DigitsValue(body, 8, <<>>))]
  ELSE IF ~AllDigits(body) /\ IsDecimal(cs)
    THEN [ok |-> TRUE, val |-> ToInt(Trunc(ParseFloat(cs).val))]
  ELSE [ok |-> FALSE]

\* int(IntVar.get()) on the text of the variable: [ok, val]. Tcl reads an
\* integer with a leading zero as octal, and tkinter falls back on the
\* text read as a double, truncated.
GetInt(cs) == GetIntBody(cs, Unsigned(cs))

(***************************************************************************)
(* The history file. Its content is none (missing), unreadable, text that  *)
(* is not JSON (garbage: what an interrupted write leaves), or a JSON      *)
(* value: a list of records, or the empty string "" (well-formed, but not  *)
(* a list). Numbers of the file are held as the floats json reads.         *)
(***************************************************************************)
HistoryCap == 20

ListRows == 20

PyList(items) == [t |-> "list", items |-> items]

PyStr == [t |-> "str", items |-> <<>>]

Missing == [kind |-> "missing", val |-> PyList(<<>>)]

Unreadable == [kind |-> "unreadable", val |-> PyList(<<>>)]

Garbage == [kind |-> "garbage", val |-> PyList(<<>>)]

Json(v) == [kind |-> "json", val |-> v]

Take(s, n) == SubSeq(s, 1, Min(n, Len(s)))

\* load_history without its except clause: the exception is what comes back
load_history_unguarded(s) ==
  IF s.kind = "json" THEN s.val ELSE [t |-> "raised", items |-> <<>>]

\* load_history(): the value json.load returns, [] when open or json.load raises
load_history(s) == IF s.kind = "json" THEN s.val ELSE PyList(<<>>)

\* how the write of save_history ends: the file is written, open() is
\* refused, or the write stops after open() has emptied the file
WriteOutcomes == {"written", "denied", "cut"}

\* save_history with h.append(entry) for h.insert(0, entry)
save_history_at_end(entry, s, out) ==
  LET h == load_history(s)
  IN  IF h.t # "list" THEN [raised |-> "AttributeError", store |-> s]
      ELSE LET kept == Take(h.items \o <<entry>>, HistoryCap)
           IN  [raised |-> "none",
                store  |-> CASE out = "written" -> Json(PyList(kept))
                             [] out = "denied"  -> s
                             [] out = "cut"     -> Garbage]

\* save_history(entry) on the file s: [raised, store]
save_history(entry, s, out) ==
  LET h == load_history(s)
  IN  IF h.t # "list" THEN [raised |-> "AttributeError", store |-> s]
      ELSE LET kept == Take(<<entry>> \o h.items, HistoryCap)
           IN  [raised |-> "none",
                store  |-> CASE out = "written" -> Json(PyList(kept))
                             [] out = "denied"  -> s
                             [] out = "cut"     -> Garbage]

(***************************************************************************)
(* The calculation of calculate().                                         *)
(***************************************************************************)
\* cents / 100.0 for the int cents
Hundredths(cents) == FRatio(cents.neg, cents.mag, 100)

\* math.ceil(per_person * 100) / 100.0
RoundUp(per_person) == Hundredths(Ceil(FMulInt(per_person, 100)))

PerPerson(bill, tip_percent, tip_amount, total_bill, people, per_person, round_up) ==
  [bill        |-> bill,
   tip_percent |-> tip_percent,
   tip_amount  |-> tip_amount,
   total_bill  |-> total_bill,
   people      |-> people,
   per_person  |-> IF round_up THEN RoundUp(per_person) ELSE per_person]

Total(bill, tip_percent, tip_amount, total_bill, people, round_up) ==
  PerPerson(bill, tip_percent, tip_amount, total_bill, people,
            FDivInt(total_bill, people), round_up)

TipAmount(bill, tip_percent, tip_amount, people, round_up) ==
  Total(bill, tip_percent, tip_amount, FAdd(bill, tip_amount), people, round_up)

\* the locals of calculate once the inputs are read
Compute(bill, tip_percent, people, round_up) ==
  TipAmount(bill, tip_percent, FMul(bill, FDivInt(tip_percent, 100)), people, round_up)

ResultText(c, r) ==
  "Bill: " \o c \o Str(Format(r.bill, 2))
    \o "\nTip (" \o Str(Format(r.tip_percent, 1)) \o "%): "
    \o c \o Str(Format(r.tip_amount, 2))
    \o "\nTotal: " \o c \o Str(Format(r.total_bill, 2))
    \o "\nEach (x" \o Str(IntToChars(r.people)) \o "): "
    \o c \o Str(Format(r.per_person, 2))

Entry(t, r) ==
  [time        |-> t,
   bill        |-> Round(r.bill, 2),
   tip_percent |-> Round(r.tip_percent, 2),
   people      |-> r.people,
   per_person  |-> Round(r.per_person, 2),
   total       |-> Round(r.total_bill, 2)]

\* one row of the history list (the time is shown as a date by strftime)
Line(item, c) ==
  [time       |-> item.time,
   currency   |-> c,
   bill       |-> Str(Format(item.bill, 2)),
   tip        |-> Str(Format(item.tip_percent, 1)),
   per_person |-> Str(Format(item.per_person, 2))]

\* the rows _update_history_list() puts in the list box: [raised, lines]
HistoryLines(s, c) ==
  LET h == load_history(s)
  IN  IF h.t = "list"
        THEN [raised |-> "none",
              lines  |-> [i \in 1..Min(ListRows, Len(h.items)) |-> Line(h.items[i], c)]]
      ELSE IF h.t = "str" THEN [raised |-> "none", lines |-> <<>>]
      ELSE [raised |-> "TypeError", lines |-> <<>>]

\* f"{v:.1f}%", the text of tip_display_var
PercentText(v) == Str(Format(v, 1)) \o "%"

TipLabel(tip) == "Tip: " \o Str(Format(tip, 1)) \o "%"

(***************************************************************************)
(* Bounds of the model and the values the user enters.                     *)
(***************************************************************************)
\* writes the file accepts: in the specifications of the form, and in SpecHist
MaxCalcs == 1

MaxAppends == 22

\* the clock stops at MaxTime
MaxTime == 1

\* SpecCalc tries every bill of 0.00 .. MaxBillCents / 100
MaxBillCents == 25

Chars2(n) == <<DigitChars[((n \div 10) % 10) + 1], DigitChars[(n % 10) + 1]>>

CentsText(k) == IntToChars(k \div 100) \o <<".">> \o Chars2(k)

BillTexts ==
  { <<"z">>, <<"-", "0", ".", "0", "1">>, CentsText(0), CentsText(110) }

PeopleTexts == { <<"1">>, <<"0">>, <<"2", ".", "5">>, <<"z">>, <<"3">> }

CurrencyTexts == {"$", ""}

\* the preset buttons with 150 for 15
Presets_typo == {10, 12, 150}

\* the preset buttons
Presets == {10, 12, 15}

\* positions of the slider, in thousandths of a percent, within from_=0, to=50
SliderMillis == {0, 49999, 50000}

SliderValues == {FRatio(FALSE, BFromInt(k), 1000) : k \in SliderMillis}

\* records written by an earlier run, or by hand; the tip of the first is
\* above the slider's range
OldRecord ==
  [time        |-> 0,
   bill        |-> FFromInt(20),
   tip_percent |-> FFromInt(75),
   people      |-> 4,
   per_person  |-> FRatio(FALSE, BFromInt(875), 100),
   total       |-> FFromInt(35)]

OtherRecord ==
  [time        |-> 0,
   bill        |-> FRatio(FALSE, BFromInt(1250), 100),
   tip_percent |-> FFromInt(12),
   people      |-> 2,
   per_person  |-> FFromInt(7),
   total       |-> FFromInt(14)]

OldList(k) == Json(PyList([i \in 1..k |-> OldRecord]))

Placeholder == "No calculation yet"

MsgInvalidBill == "Please enter a valid bill amount."

MsgNegativeBill == "Bill amount cannot be negative."

MsgInvalidPeople == "Please enter a valid number of people (>=1)."

MsgCopied == "Result copied to clipboard."

MsgCopyFailed == "Could not copy to clipboard."

(***************************************************************************)
(* State.                                                                  *)
(***************************************************************************)
VARIABLES
  bill_var,         \* text of the bill entry
  currency_var,     \* text of the currency entry
  tip_var,          \* the tip percent, a float
  tip_display_var,  \* the percent text the slider's callback writes
  tip_label,        \* text of the tip label
  people_var,       \* text of the spin box
  round_var,        \* the "round up" check box
  result_text,      \* the displayed result
  history_list,     \* rows of the list box
  clipboard,        \* the clipboard, "" until a result is copied
  store,            \* the history file
  now,              \* int(time.time())
  running,          \* whether the program is running
  last,             \* the step taken last: [op, arg, msg, raised], msg the text
                    \* of the message box shown, raised the exception that
                    \* left the handler
  computed,         \* the last calculation that passed validation:
                    \* [done, shown, r, entry, text]; shown until Clear
  log               \* [start, entries]: what the file held when it last started
                    \* afresh, and the records written to it since, oldest first

ui == <<bill_var, currency_var, tip_var, tip_display_var, tip_label,
        people_var, round_var, result_text, history_list>>

vars == <<bill_var, currency_var, tip_var, tip_display_var, tip_label,
          people_var, round_var, result_text, history_list, clipboard,
          store, now, running, last, computed, log>>

Currency == IF currency_var = "" THEN "$" ELSE currency_var

NoCalc == [done |-> FALSE, shown |-> FALSE]

Ran(op, arg, msg, raised) == [op |-> op, arg |-> arg, msg |-> msg, raised |-> raised]

StartKind(s) ==
  IF s.kind # "json" THEN s.kind
  ELSE IF s.val.t # "list" THEN "emptystr"
  ELSE IF s.val.items = <<>> THEN "empty" ELSE "records"

\* The state TipCalculator.__init__ / _build_ui leaves on the file `store`,
\* with the entries then filled from the given sets: a tip of the slider is
\* set by on_tip_change, which writes the percent text too; a preset tip is
\* set by set_tip, which leaves the percent text of _build_ui.
InitWith(stores, bills, tips, peoples, rounds) ==
  /\ store \in stores
  /\ bill_var \in bills
  /\ currency_var = "$"
  /\ tip_var \in tips
  /\ tip_display_var =
       IF tip_var \in SliderValues THEN PercentText(tip_var)
       ELSE PercentText(FFromInt(15))
  /\ tip_label = TipLabel(tip_var)
  /\ people_var \in peoples
  /\ round_var \in rounds
  /\ result_text = Placeholder
  /\ history_list = HistoryLines(store, "$").lines
  /\ clipboard = ""
  /\ now = 0
  /\ running = TRUE
  /\ last = Ran("init", 0, "none", "none")
  /\ computed = NoCalc
  /\ log = [start |-> StartKind(store), entries |-> <<>>]

InitStores ==
  {Missing, Unreadable, Garbage, Json(PyStr), OldList(0), OldList(1)}

InitOn(stores) ==
  InitWith(stores, {CentsText(0)}, {FFromInt(15)}, {IntToChars(1)}, {FALSE})

Init == InitOn(InitStores)

(***************************************************************************)
(* What the user types and sets, and the environment.                      *)
(***************************************************************************)
Edit ==
  /\ running
  /\ last' = Ran("edit", 0, "none", "none")
  /\ UNCHANGED <<tip_var, tip_display_var, tip_label, result_text,
                 history_list, clipboard, store, now, running, computed, log>>

type_bill ==
  /\ \E t \in BillTexts : bill_var' = t
  /\ Edit
  /\ UNCHANGED <<currency_var, people_var, round_var>>

type_people ==
  /\ \E t \in PeopleTexts : people_var' = t
  /\ Edit
  /\ UNCHANGED <<bill_var, currency_var, round_var>>

type_currency ==
  /\ \E t \in CurrencyTexts : currency_var' = t
  /\ Edit
  /\ UNCHANGED <<bill_var, people_var, round_var>>

toggle_round ==
  /\ round_var' = ~round_var
  /\ Edit
  /\ UNCHANGED <<bill_var, currency_var, people_var>>

tick ==
  /\ now < MaxTime
  /\ now' = now + 1
  /\ last' = Ran("tick", 0, "none", "none")
  /\ UNCHANGED <<ui, clipboard, store, running, computed, log>>

\* the history file is deleted from outside the program
remove_file ==
  /\ store # Missing
  /\ store' = Missing
  /\ log' = [start |-> "missing", entries |-> <<>>]
  /\ last' = Ran("remove_file", 0, "none", "none")
  /\ UNCHANGED <<ui, clipboard, now, running, computed>>

(***************************************************************************)
(* The handlers.                                                           *)
(***************************************************************************)
\* TipCalculator.set_tip, from a preset button
set_tip(percent) ==
  /\ running
  /\ tip_var' = FFromInt(percent)
  /\ tip_label' = TipLabel(tip_var')
  /\ last' = Ran("set_tip", 0, "none", "none")
  /\ UNCHANGED <<bill_var, currency_var, tip_display_var, people_var, round_var,
                 result_text, history_list, clipboard, store, now, running,
                 computed, log>>

\* the slider's command, with the slider's new position
on_tip_change(v) ==
  /\ running
  /\ tip_var' = v
  /\ tip_display_var' = PercentText(v)
  /\ tip_label' = TipLabel(v)
  /\ last' = Ran("on_tip_change", 0, "none", "none")
  /\ UNCHANGED <<bill_var, currency_var, people_var, round_var, result_text,
                 history_list, clipboard, store, now, running, computed, log>>

\* the checks of calculate on float(bill text) and int(people)
Checked(b, p) ==
  IF ~b.ok THEN MsgInvalidBill
  ELSE IF FNegative(b.val) THEN MsgNegativeBill
  ELSE IF ~p.ok THEN MsgInvalidPeople
  ELSE IF p.val < 1 THEN MsgInvalidPeople
  ELSE "ok"

\* the validation of calculate: "ok", or the message of the error box
Validate(bill_text, people_text) ==
  Checked(ParseFloat(bill_text), GetInt(people_text))

Calculation ==
  Compute(ParseFloat(bill_var).val, tip_var, GetInt(people_var).val, round_var)

\* calculate resetting the result before it returns from a validation error
Rejected_resets(msg) ==
  /\ last' = Ran("calculate", 0, msg, "none")
  /\ result_text' = Placeholder
  /\ UNCHANGED <<history_list, store, computed, log>>

\* calculate after messagebox.showerror(msg): it returns
Rejected(msg) ==
  /\ last' = Ran("calculate", 0, msg, "none")
  /\ UNCHANGED <<result_text, history_list, store, computed, log>>

\* the ghost log after save_history ended with `out`
Logged(entry, out) ==
  IF out = "written" THEN [log EXCEPT !.entries = Append(@, entry)]
  ELSE IF out = "denied" THEN log
  ELSE [start |-> "interrupted", entries |-> <<>>]

\* calculate after _update_history_list has run on the file st
Refreshed(entry, out, st, hl) ==
  /\ store' = st
  /\ log' = Logged(entry, out)
  /\ history_list' = hl.lines
  /\ last' = Ran("calculate", 0, "none", hl.raised)

\* calculate after save_history(entry) returned or raised
Saved(entry, out, sv) ==
  IF sv.raised # "none"
    THEN /\ last' = Ran("calculate", 0, "none", sv.raised)
         /\ UNCHANGED <<history_list, store, log>>
    ELSE Refreshed(entry, out, sv.store, HistoryLines(sv.store, Currency))

\* calculate from self.result_text.set(result) on
Shown(r, entry, text, cap) ==
  /\ result_text' = text
  /\ computed' = [done |-> TRUE, shown |-> TRUE, r |-> r, entry |-> entry,
                  text |-> text]
  /\ \E out \in WriteOutcomes :
       /\ out = "written" => Len(log.entries) < cap
       /\ Saved(entry, out, save_history(entry, store, out))

Accepted(r, cap) == Shown(r, Entry(now, r), ResultText(Currency, r), cap)

Decided(v, cap) == IF v # "ok" THEN Rejected(v) ELSE Accepted(Calculation, cap)

\* TipCalculator.calculate; the file accepts a write while fewer than cap
\* records were written to it
calculate(cap) ==
  /\ running
  /\ UNCHANGED <<bill_var, currency_var, tip_var, tip_display_var, tip_label,
                 people_var, round_var, clipboard, now, running>>
  /\ Decided(Validate(bill_var, people_var), cap)

\* calculate, with the process killed while save_history writes the file
calculate_killed ==
  /\ running
  /\ Validate(bill_var, people_var) = "ok"
  /\ load_history(store).t = "list"
  /\ store' = Garbage
  /\ log' = [start |-> "interrupted", entries |-> <<>>]
  /\ running' = FALSE
  /\ last' = Ran("killed", 0, "none", "none")
  /\ computed' = NoCalc
  /\ UNCHANGED <<ui, clipboard, now>>

\* the program is started again: TipCalculator.__init__
start ==
  /\ ~running
  /\ HistoryLines(store, "$").raised = "none"
  /\ running' = TRUE
  /\ bill_var' = CentsText(0)
  /\ currency_var' = "$"
  /\ tip_var' = FFromInt(15)
  /\ tip_display_var' = PercentText(FFromInt(15))
  /\ tip_label' = TipLabel(FFromInt(15))
  /\ people_var' = IntToChars(1)
  /\ round_var' = FALSE
  /\ result_text' = Placeholder
  /\ history_list' = HistoryLines(store, "$").lines
  /\ last' = Ran("init", 0, "none", "none")
  /\ UNCHANGED <<clipboard, store, now, computed, log>>

\* the test of copy_result without the comparison with the placeholder
NothingToCopy_empty(txt) == txt = ""

\* the test of copy_result: nothing to copy
NothingToCopy(txt) == txt = "" \/ txt = Placeholder

\* TipCalculator.copy_result; the clipboard takes the text or refuses it
copy_result ==
  /\ running
  /\ UNCHANGED <<ui, store, now, running, computed, log>>
  /\ IF NothingToCopy(result_text)
       THEN /\ last' = Ran("copy_result", 0, "none", "none")
            /\ UNCHANGED clipboard
       ELSE \/ /\ clipboard' = result_text
               /\ last' = Ran("copy_result", 0, MsgCopied, "none")
            \/ /\ clipboard' \in {clipboard, ""}
               /\ last' = Ran("copy_result", 0, MsgCopyFailed, "none")

\* TipCalculator.clear_inputs
clear_inputs ==
  /\ running
  /\ bill_var' = CentsText(0)
  /\ tip_var' = FFromInt(15)
  /\ tip_label' = TipLabel(FFromInt(15))
  /\ people_var' = IntToChars(1)
  /\ round_var' = FALSE
  /\ result_text' = Placeholder
  /\ computed' = [computed EXCEPT !.shown = FALSE]
  /\ last' = Ran("clear_inputs", 0, "none", "none")
  /\ UNCHANGED <<currency_var, tip_display_var, history_list, clipboard, store,
                 now, running, log>>

\* the rows counted from the end of the file
SelectedItem_from_end(h, idx) == h.items[Len(h.items) - idx]

\* the record load_selected_history takes for row idx (from 0) of the list box
SelectedItem(h, idx) == h.items[idx + 1]

\* TipCalculator.load_selected_history with row sel of the list box selected
\* (rows count from 1; 0: no row)
load_selected_history(sel) ==
  /\ running
  /\ UNCHANGED <<currency_var, tip_display_var, round_var, result_text,
                 history_list, clipboard, store, now, running, computed, log>>
  /\ LET h == load_history(store)
     IN  IF sel = 0
           THEN /\ last' = Ran("load_selected_history", sel, "none", "none")
                /\ UNCHANGED <<bill_var, tip_var, tip_label, people_var>>
         ELSE IF h.t \notin {"list", "str"}
           THEN /\ last' = Ran("load_selected_history", sel, "none", "TypeError")
                /\ UNCHANGED <<bill_var, tip_var, tip_label, people_var>>
         ELSE IF sel - 1 >= Len(h.items)
           THEN /\ last' = Ran("load_selected_history", sel, "none", "none")
                /\ UNCHANGED <<bill_var, tip_var, tip_label, people_var>>
         ELSE LET item == SelectedItem(h, sel - 1)
              IN  /\ bill_var' = Format(item.bill, 2)
                  /\ tip_var' = item.tip_percent
                  /\ people_var' = IntToChars(item.people)
                  /\ tip_label' = TipLabel(item.tip_percent)
                  /\ last' = Ran("load_selected_history", sel, "none", "none")

Rows == 0..Len(history_list)

(***************************************************************************)
(* Spec: the whole form.                                                   *)
(***************************************************************************)
Next ==
  \/ type_bill
  \/ type_people
  \/ type_currency
  \/ toggle_round
  \/ \E p \in Presets : set_tip(p)
  \/ \E v \in SliderValues : on_tip_change(v)
  \/ calculate(MaxCalcs)
  \/ calculate_killed
  \/ start
  \/ copy_result
  \/ clear_inputs
  \/ \E sel \in Rows : load_selected_history(sel)
  \/ remove_file
  \/ tick

Spec == Init /\ [][Next]_vars

(***************************************************************************)
(* SpecCalc: calculate on every input of the bounded sets.                 *)
(***************************************************************************)
CalcBills == BillTexts \cup {CentsText(k) : k \in 0..MaxBillCents}

CalcTips == {FFromInt(p) : p \in Presets} \cup SliderValues

InitCalc == InitWith({Missing}, CalcBills, CalcTips, PeopleTexts, BOOLEAN)

NextCalc == calculate(MaxCalcs)

SpecCalc == InitCalc /\ [][NextCalc]_vars

(***************************************************************************)
(* SpecHist: the history file under appends, interrupted writes and        *)
(* restarts, from files of up to HistoryCap + 1 records.                   *)
(***************************************************************************)
HistStores ==
  {Missing, Unreadable, Garbage, OldList(0), OldList(1), OldList(HistoryCap + 1)}

InitHist == InitOn(HistStores)

NextHist ==
  \/ calculate(MaxAppends)
  \/ calculate_killed
  \/ start
  \/ tick

SpecHist == InitHist /\ [][NextHist]_vars

(***************************************************************************)
(* SpecValid: calculate on typed inputs, from every kind of history file.  *)
(***************************************************************************)
InitValid == InitOn(InitStores)

NextValid ==
  \/ type_bill
  \/ type_people
  \/ calculate(MaxCalcs)
  \/ clear_inputs

SpecValid == InitValid /\ [][NextValid]_vars

(***************************************************************************)
(* SpecLoad: load selected history on a file of two records, and on a list *)
(* box that is out of date.                                                *)
(***************************************************************************)
LoadStores == {Missing, Json(PyList(<<OtherRecord, OldRecord>>))}

InitLoad == InitOn(LoadStores)

NextLoad ==
  \/ \E sel \in Rows : load_selected_history(sel)
  \/ toggle_round
  \/ calculate(MaxCalcs)
  \/ clear_inputs
  \/ remove_file

SpecLoad == InitLoad /\ [][NextLoad]_vars

(***************************************************************************)
(* SpecCopy: calculate, clear, load selected history and copy, under any    *)
(* currency text.                                                          *)
(***************************************************************************)
CopyStores == {Missing, OldList(1)}

InitCopy == InitOn(CopyStores)

NextCopy ==
  \/ calculate(MaxCalcs)
  \/ clear_inputs
  \/ \E sel \in Rows : load_selected_history(sel)
  \/ copy_result
  \/ type_currency

SpecCopy == InitCopy /\ [][NextCopy]_vars

(***************************************************************************)
(* SpecTip: the tip percent under presets, slider, clear, calculate and    *)
(* load selected history.                                                  *)
(***************************************************************************)
TipStores == {Missing, OldList(0)}

InitTip == InitOn(TipStores)

NextTip ==
  \/ \E p \in Presets : set_tip(p)
  \/ \E v \in SliderValues : on_tip_change(v)
  \/ clear_inputs
  \/ calculate(MaxCalcs)
  \/ \E sel \in Rows : load_selected_history(sel)

SpecTip == InitTip /\ [][NextTip]_vars

(***************************************************************************)
(* The claims.                                                             *)
(***************************************************************************)
Reverse(s) == [i \in 1..Len(s) |-> s[Len(s) + 1 - i]]

Stored == load_history(store).items

\* C1: from an empty or missing history file, after n appends load_history
\* returns the min(n, 20) records appended last, the last appended first, in
\* the order of their appends; past 20 the oldest are the ones dropped.
C1_MostRecentFirst ==
  log.start \in {"missing", "empty"} =>
    load_history(store) = PyList(Take(Reverse(log.entries), HistoryCap))

\* 21 appends, the first at time 0 and the others at time 1: 20 records are
\* left and the first one is not among them
C1_Witness ==
  /\ log.start = "missing"
  /\ Len(log.entries) = HistoryCap + 1
  /\ log.entries[1].time = 0
  /\ log.entries[2].time = 1
  /\ Len(Stored) = HistoryCap
  /\ \A i \in 1..Len(Stored) : Stored[i].time = 1

\* C2: whatever the history file holds, a calculate with a valid bill and
\* party size shows the result it computed and returns with no exception.
C2_NeverAborts ==
  (last.op = "calculate" /\ last.msg = "none") =>
    /\ last.raised = "none"
    /\ result_text = ResultText(Currency, Calculation)

Corrupt(s) == s.kind \in {"missing", "unreadable", "garbage"}

\* C3: on a missing or corrupt history file, one left by an interrupted write
\* included, load_history returns the empty list and raises nothing (the
\* program starts and shows an empty history list), and the next append
\* leaves a file that holds only the record appended.
C3_EmptyOnCorrupt ==
  /\ Corrupt(store) => load_history(store) = PyList(<<>>)
  /\ (Corrupt(store) /\ running) => (history_list = <<>> /\ last.raised = "none")
  /\ (log.start \in {"interrupted", "garbage", "unreadable"} /\ Len(log.entries) = 1)
       => load_history(store) = PyList(<<log.entries[1]>>)

\* the first append after an interrupted write: one record, one row
C3_Witness ==
  /\ log.start = "interrupted"
  /\ Len(log.entries) = 1
  /\ running
  /\ last.op = "calculate"
  /\ Len(history_list) = 1

\* C4: whatever the history file held when the program started, load_history
\* returns at most 20 records.
C4_AtMostCap == Len(Stored) <= HistoryCap

ValidationErrors == {MsgInvalidBill, MsgNegativeBill, MsgInvalidPeople}

\* C5: a calculate that shows a validation error leaves the history file, the
\* history list and the displayed result as they were.
C5_RejectChangesNothing ==
  [][(last'.op = "calculate" /\ last'.msg \in ValidationErrors) =>
       /\ store' = store
       /\ history_list' = history_list
       /\ result_text' = result_text]_vars

\* a negative bill rejected while an earlier result and its row are shown
C5_Witness ==
  /\ last.op = "calculate"
  /\ last.msg = MsgNegativeBill
  /\ computed.done
  /\ result_text = computed.text
  /\ Len(history_list) = 1

\* an optional sign and decimal digits
IsIntegerText(cs) == AllDigits(Unsigned(cs))

IntegerValue(cs) == Signed(HasSign(cs), DigitsValue(Unsigned(cs), 10, <<>>))

\* the outcome the claim gives calculate: the error, or "none" when computed
Verdict(bill_text, people_text) ==
  IF ~ParseFloat(bill_text).ok THEN MsgInvalidBill
  ELSE IF FNegative(ParseFloat(bill_text).val) THEN MsgNegativeBill
  ELSE IF ~IsIntegerText(people_text) THEN MsgInvalidPeople
  ELSE IF IntegerValue(people_text) < 1 THEN MsgInvalidPeople
  ELSE "none"

\* C6: calculate fails with the invalid-bill error on a bill that is not a
\* number, else with the negative-bill error on a bill below 0, else with the
\* invalid-party-size error on a party size that is 0, negative or not an
\* integer; any other input is computed.
C6_Classification ==
  last.op = "calculate" => last.msg = Verdict(bill_var, people_var)

\* the bill of a text with two decimals, in cents
BillCents(cs) == BToInt(DigitsValue(SelectSeq(Unsigned(cs), IsDigit), 10, <<>>))

\* the tip percent in thousandths, for the percents of the bounded sets
TipMillis(tip) ==
  CHOOSE k \in SliderMillis \cup {1000 * p : p \in Presets} :
    FRatio(FALSE, BFromInt(k), 1000) = tip

\* the least number of cents c with c * n >= b * (1 + t / 100000)
CeilingCents(b, t, n) == (b * (100000 + t) + 100000 * n - 1) \div (100000 * n)

\* C7: with rounding on, the per-person share calculate computes is the
\* smallest multiple of 0.01 whose product with the party size covers
\* bill + bill * tip / 100.
C7_ExactCeiling ==
  (last.op = "calculate" /\ last.msg = "none" /\ round_var
     /\ IsIntegerText(people_var)) =>
    computed.r.per_person =
      FRatio(FALSE,
             BFromInt(CeilingCents(BillCents(bill_var), TipMillis(tip_var),
                                   IntegerValue(people_var))),
             100)

\* C8: load_selected_history on a row within the stored log sets bill, tip
\* percent and party size to the record of that row and leaves the rounding
\* toggle, the displayed result and the history file alone; with no row
\* selected or a row past the stored log it changes nothing and raises nothing.
C8_LoadSelected ==
  [][last'.op = "load_selected_history" =>
       IF last'.arg >= 1 /\ last'.arg <= Len(Stored)
         THEN /\ ParseFloat(bill_var').ok
              /\ ParseFloat(bill_var').val = Stored[last'.arg].bill
              /\ tip_var' = Stored[last'.arg].tip_percent
              /\ GetInt(people_var').ok
              /\ GetInt(people_var').val = Stored[last'.arg].people
              /\ last'.raised = "none"
              /\ UNCHANGED <<round_var, result_text, store>>
         ELSE /\ last'.raised = "none"
              /\ UNCHANGED <<ui, clipboard, store>>]_vars

\* the second row loaded with the rounding toggle on and a result displayed
C8_Witness ==
  /\ last.op = "load_selected_history"
  /\ last.arg = 2
  /\ bill_var = Format(OldRecord.bill, 2)
  /\ tip_var = OldRecord.tip_percent
  /\ people_var = IntToChars(OldRecord.people)
  /\ round_var
  /\ computed.done
  /\ result_text = computed.text

\* C9 as claimed: copy_result puts the text of the last successful
\* calculation on the clipboard, and does nothing exactly when there has been
\* no successful calculation (a clipboard that refuses the text set aside).
C9_CopiesLastCalculation ==
  [][(last'.op = "copy_result" /\ last'.msg # MsgCopyFailed) =>
       IF computed.done
         THEN clipboard' = computed.text /\ last'.msg = MsgCopied
         ELSE clipboard' = clipboard /\ last'.msg = "none"]_vars

\* C9 amended: copy_result puts on the clipboard the text of the last
\* successful calculation made since the last clear, or reports that the
\* clipboard refused it; it does nothing exactly when there has been no
\* successful calculation since the start or the last clear.
C9_CopiesDisplayedResult ==
  [][last'.op = "copy_result" =>
       IF computed.done /\ computed.shown
         THEN \/ clipboard' = computed.text /\ last'.msg = MsgCopied
              \/ last'.msg = MsgCopyFailed
         ELSE clipboard' = clipboard /\ last'.msg = "none"]_vars

\* a copy that does nothing after clear, the clipboard still holding the
\* result copied before
C9_Witness ==
  /\ last.op = "copy_result"
  /\ last.msg = "none"
  /\ computed.done
  /\ ~computed.shown
  /\ clipboard = computed.text

RECURSIVE BLessFrom(_, _, _)
BLessFrom(a, b, i) ==
  IF i = 0 THEN FALSE
  ELSE IF a[i] # b[i] THEN a[i] < b[i] ELSE BLessFrom(a, b, i - 1)

\* a < b
BLess(a, b) ==
  IF Len(a) # Len(b) THEN Len(a) < Len(b) ELSE BLessFrom(a, b, Len(a))

\* |a| <= |b| for a and b other than zero
MagLeq(a, b) == a.e < b.e \/ (a.e = b.e /\ ~BLess(b.m, a.m))

\* a <= b
FLeq(a, b) ==
  IF IsZero(a) THEN ~FNegative(b)
  ELSE IF a.neg THEN ~FNegative(b) \/ MagLeq(b, a)
  ELSE ~IsZero(b) /\ ~b.neg /\ MagLeq(a, b)

InRange(x) == FLeq(FFromInt(0), x) /\ FLeq(x, FFromInt(50))

\* C10: from an empty or missing history file, the tip percent and the tip
\* percent of every stored record stay within [0, 50].
C10_TipInRange ==
  /\ InRange(tip_var)
  /\ \A i \in 1..Len(Stored) : InRange(Stored[i].tip_percent)

\* a record computed with the slider at 49.999 is stored with 50.0, and
\* loaded again
C10_Witness ==
  /\ last.op = "load_selected_history"
  /\ last.arg = 1
  /\ tip_var = FFromInt(50)
  /\ computed.done
  /\ computed.r.tip_percent # FFromInt(50)
  /\ Len(Stored) >= 1
  /\ Stored[1].tip_percent = FFromInt(50)

====
